---------------------------- MODULE Spec2Model ----------------------------
(***************************************************************************)
(* PortalManager (src/index.js): a registry of overlay containers          *)
(* ("portals") kept in a plain object, the DOM tree they and the caller's  *)
(* elements live in, and the placement arithmetic of positionElement.      *)
(*                                                                         *)
(* JavaScript values are tagged tuples, so that values of different kinds  *)
(* can be compared: <<"null">>, <<"undefined">>, <<"true">>, <<"false">>,  *)
(* DOM nodes <<"body">>, <<"portal", k>>, <<"element", k>>, and the        *)
(* members a plain object inherits, <<"Object.prototype", key>>.           *)
(* Coordinates are kept in half pixels (every length is doubled), so that  *)
(* rect.width / 2 is exact.                                                *)
(***************************************************************************)
EXTENDS Integers, Sequences, FiniteSets, TLC

VARIABLES
    portals,        \* this.portals: own properties <<id, node>> in Object.entries order
    parentNode,     \* node.parentNode of every DOM node
    headStyles,     \* the <style> rules appended to document.head, in order
    style,          \* inline style of every node: zIndex, pointerEvents, transform
    layout,         \* what the host measures: anchor rect, element size, viewport
    emitted,        \* the signals emitted by the most recent call, in order
    lastCall,       \* the most recent call and its arguments
    ret,            \* what the most recent call returned or threw
    lastSignal      \* what a subscriber to the three signals has recorded: per
                    \* node, the most recent signal emitted with it

vars == <<portals, parentNode, headStyles, style, layout, emitted, lastCall, ret,
          lastSignal>>

-----------------------------------------------------------------------------
(* Bounds of the model *)

\* document.createElement("div") calls for portal containers over a run
MaxPortals == 2

\* elements the caller creates and hands to the manager
NumElements == 2

-----------------------------------------------------------------------------
(* JavaScript values and DOM nodes *)

null == <<"null">>

undefined == <<"undefined">>

true == <<"true">>

false == <<"false">>

body == <<"body">>

Portal(k) == <<"portal", k>>

Element(k) == <<"element", k>>

PortalNodes == {Portal(k) : k \in 1..MaxPortals}

Elements == {Element(k) : k \in 1..NumElements}

Nodes == {body} \cup PortalNodes \cup Elements

\* the default z-index of _createPortal and getPortal
DefaultZIndex == 9999

ZIndexes == {DefaultZIndex, 10000}

\* identifiers callers pass; "7" is an integer-like key, which a plain object
\* enumerates before its string keys, and "constructor" is a member every
\* plain object inherits from Object.prototype
PortalIds == {"main", "tooltips", "7", "constructor"}

InheritedKeys == {"constructor", "toString", "valueOf", "hasOwnProperty", "__proto__"}

ObjectPrototype(key) == <<"Object.prototype", key>>

IsNode(v) == v \in Nodes

\* JavaScript truthiness of the values this.portals[id] can yield
Truthy(v) == v \notin {undefined, null, false}

-----------------------------------------------------------------------------
(* this.portals = {} : a plain object *)

OwnIds(ps) == {ps[i][1] : i \in 1..Len(ps)}

OwnValue(ps, id) == ps[CHOOSE i \in 1..Len(ps) : ps[i][1] = id][2]

\* this.portals[id]: an own property, else one inherited from Object.prototype
Lookup(ps, id) ==
    IF id \in OwnIds(ps) THEN OwnValue(ps, id)
    ELSE IF id \in InheritedKeys THEN ObjectPrototype(id)
    ELSE undefined

\* the integer an integer-like key stands for, -1 for any other string
ArrayIndex(id) ==
    CASE id = "0" -> 0
      [] id = "7" -> 7
      [] id = "42" -> 42
      [] OTHER -> -1

\* this.portals[id] = portal, for an id that is no own property yet.
\* Object.entries enumerates integer-like keys first, in ascending order, then
\* string keys in insertion order
SetOwn(ps, id, portal) ==
    IF ArrayIndex(id) < 0 THEN Append(ps, <<id, portal>>)
    ELSE LET before == {i \in 1..Len(ps) :
                          ArrayIndex(ps[i][1]) >= 0 /\ ArrayIndex(ps[i][1]) < ArrayIndex(id)}
             n == Cardinality(before)
         IN  SubSeq(ps, 1, n) \o <<<<id, portal>>>> \o SubSeq(ps, n + 1, Len(ps))

-----------------------------------------------------------------------------
(* DOM tree *)

RECURSIVE IsInclusiveDescendant(_, _, _)
\* a.contains(b): b is a or a descendant of a
IsInclusiveDescendant(parent, a, b) ==
    IF b = a THEN TRUE
    ELSE IF parent[b] = null THEN FALSE
    ELSE IsInclusiveDescendant(parent, a, parent[b])

contains(w, a, b) == IsInclusiveDescendant(w.parentNode, a, b)

\* document.body.contains(n)
IsConnected(parent, n) == IsInclusiveDescendant(parent, body, n)

\* portals created so far: each creation appends one rule to document.head
Created(w) == Len(w.headStyles)

-----------------------------------------------------------------------------
(* Host layout: what getBoundingClientRect, offsetWidth/offsetHeight and    *)
(* window.innerWidth/innerHeight return, in pixels                          *)

Layout(left, top, width, height, ow, oh, iw, ih) ==
    [left |-> left, top |-> top, width |-> width, height |-> height,
     offsetWidth |-> ow, offsetHeight |-> oh, innerWidth |-> iw, innerHeight |-> ih]

Placements == {"top", "bottom", "left", "right",
               "bottom-left", "bottom-right", "top-left", "top-right"}

\* a switch whose "bottom" case anchors at rect.top
IdealPositionBottomAtTop(placement, l, margin) ==
    LET left == 2 * l.left
        top == 2 * l.top
        right == 2 * (l.left + l.width)
        bottom == 2 * (l.top + l.height)
        ow == 2 * l.offsetWidth
        oh == 2 * l.offsetHeight
        m == 2 * margin
    IN  CASE placement = "top" ->
               <<left + l.width - l.offsetWidth, top - oh - m>>
          [] placement = "bottom" ->
               <<left + l.width - l.offsetWidth, top + m>>
          [] placement = "left" ->
               <<left - ow - m, top + l.height - l.offsetHeight>>
          [] placement = "right" ->
               <<right + m, top + l.height - l.offsetHeight>>
          [] placement = "bottom-left" -> <<left, bottom + m>>
          [] placement = "bottom-right" -> <<right - ow, bottom + m>>
          [] placement = "top-left" -> <<left, top - oh - m>>
          [] placement = "top-right" -> <<right - ow, top - oh - m>>
          [] OTHER -> <<left, bottom + m>>

\* the switch of positionElement, in half pixels: <<2 * translateX, 2 * translateY>>
IdealPosition(placement, l, margin) ==
    LET left == 2 * l.left
        top == 2 * l.top
        right == 2 * (l.left + l.width)
        bottom == 2 * (l.top + l.height)
        ow == 2 * l.offsetWidth
        oh == 2 * l.offsetHeight
        m == 2 * margin
    IN  CASE placement = "top" ->
               <<left + l.width - l.offsetWidth, top - oh - m>>
          [] placement = "bottom" ->
               <<left + l.width - l.offsetWidth, bottom + m>>
          [] placement = "left" ->
               <<left - ow - m, top + l.height - l.offsetHeight>>
          [] placement = "right" ->
               <<right + m, top + l.height - l.offsetHeight>>
          [] placement = "bottom-left" -> <<left, bottom + m>>
          [] placement = "bottom-right" -> <<right - ow, bottom + m>>
          [] placement = "top-left" -> <<left, top - oh - m>>
          [] placement = "top-right" -> <<right - ow, top - oh - m>>
          [] OTHER -> <<left, bottom + m>>

\* a clamp that makes the two tests in the other order
ClampAxisUpperFirst(t, size, viewport) ==
    LET t1 == IF t + 2 * size > 2 * viewport THEN 2 * viewport - 2 * size ELSE t
    IN  IF t1 < 0 THEN 0 ELSE t1

\* a clamp that leaves out the "< 0" test
ClampAxisUpperOnly(t, size, viewport) ==
    IF t + 2 * size > 2 * viewport THEN 2 * viewport - 2 * size ELSE t

\* "Adjust position to stay within viewport", one axis: the two ifs in order
ClampAxis(t, size, viewport) ==
    LET t1 == IF t < 0 THEN 0 ELSE t
    IN  IF t1 + 2 * size > 2 * viewport THEN 2 * viewport - 2 * size ELSE t1

\* a positionElement whose default case is the default placement "bottom"
TranslateDefaultBottom(placement, l, margin) ==
    LET ideal == IdealPosition(IF placement \in Placements THEN placement ELSE "bottom",
                               l, margin)
    IN  <<ClampAxis(ideal[1], l.offsetWidth, l.innerWidth),
          ClampAxis(ideal[2], l.offsetHeight, l.innerHeight)>>

\* translateX, translateY as written into element.style.transform (half pixels)
Translate(placement, l, margin) ==
    LET ideal == IdealPosition(placement, l, margin)
    IN  <<ClampAxis(ideal[1], l.offsetWidth, l.innerWidth),
          ClampAxis(ideal[2], l.offsetHeight, l.innerHeight)>>

\* const { placement = "bottom", portalId = "main", margin = 5 } = options
Option(options, key, default) ==
    IF key \in DOMAIN options THEN options[key] ELSE default

DefaultMargin == 5

NoOptions == [k \in {} |-> 0]

-----------------------------------------------------------------------------
(* The manager's state as one value, threaded through the calls *)

\* emitted: the signals of the call in progress; delivered: for each of them,
\* the state its subscribers find when emit calls them
World == [portals |-> portals, parentNode |-> parentNode,
          headStyles |-> headStyles, style |-> style, emitted |-> <<>>,
          delivered |-> <<>>]

Commit(w) ==
    /\ portals' = w.portals
    /\ parentNode' = w.parentNode
    /\ headStyles' = w.headStyles
    /\ style' = w.style
    /\ emitted' = w.emitted

NoStyle == [zIndex |-> 0, pointerEvents |-> "", transform |-> <<>>]

\* signal.emit(a, b): subscribers run now, on the state as it is at this line
Emit(w, signal, a, b) ==
    [w EXCEPT !.emitted = Append(@, <<signal, a, b>>),
              !.delivered = Append(@, [portals |-> w.portals, parentNode |-> w.parentNode,
                                       headStyles |-> w.headStyles, style |-> w.style,
                                       emitted |-> <<>>, delivered |-> <<>>])]

\* _createPortal(id, zIndex)
createPortal(w, id, zIndex) ==
    IF Truthy(Lookup(w.portals, id))
    THEN [w |-> w, ret |-> Lookup(w.portals, id), threw |-> ""]
    ELSE LET portal == Portal(Created(w) + 1)
             w1 == [w EXCEPT
                      !.headStyles = Append(@, [id |-> id, zIndex |-> zIndex]),
                      !.style[portal] = [zIndex |-> zIndex, pointerEvents |-> "none",
                                         transform |-> <<>>],
                      !.parentNode[portal] = body,
                      !.portals = SetOwn(@, id, portal)]
         IN  [w |-> Emit(w1, "portalCreated", id, portal), ret |-> portal, threw |-> ""]

\* a getPortal that applies the zIndex argument to a portal that exists
getPortalRestyle(w, id, zIndex) ==
    IF IsNode(Lookup(w.portals, id))
    THEN [w |-> [w EXCEPT !.style[Lookup(w.portals, id)].zIndex = zIndex],
          ret |-> Lookup(w.portals, id), threw |-> ""]
    ELSE createPortal(w, id, zIndex)

\* getPortal(id = "main", zIndex = 9999)
getPortal(w, id, zIndex) ==
    IF Truthy(Lookup(w.portals, id))
    THEN [w |-> w, ret |-> Lookup(w.portals, id), threw |-> ""]
    ELSE createPortal(w, id, zIndex)

\* portal.appendChild(element): the DOM refuses a parent inside the child
appendChild(w, portal, element) ==
    IF contains(w, element, portal)
    THEN [w |-> w, ret |-> undefined, threw |-> "HierarchyRequestError"]
    ELSE [w |-> [w EXCEPT !.parentNode[element] = portal], ret |-> element, threw |-> ""]

\* an addToPortal that emits elementAdded before it appends the element
addToPortalAnnounceFirst(w, element, portalId) ==
    LET got == getPortal(w, portalId, DefaultZIndex)
    IN  IF ~IsNode(got.ret)
        THEN [w |-> got.w, ret |-> undefined, threw |-> "TypeError"]
        ELSE LET announced == Emit(got.w, "elementAdded", element, portalId)
                 app == appendChild(announced, got.ret, element)
             IN  IF app.threw # "" THEN app
                 ELSE [w |-> [app.w EXCEPT !.style[element].pointerEvents = "auto"],
                       ret |-> element, threw |-> ""]

\* addToPortal(element, portalId = "main")
addToPortal(w, element, portalId) ==
    LET got == getPortal(w, portalId, DefaultZIndex)
    IN  IF ~IsNode(got.ret)
        THEN [w |-> got.w, ret |-> undefined, threw |-> "TypeError"]
        ELSE LET app == appendChild(got.w, got.ret, element)
             IN  IF app.threw # "" THEN app
                 ELSE [w |-> Emit([app.w EXCEPT !.style[element].pointerEvents = "auto"],
                                  "elementAdded", element, portalId),
                       ret |-> element, threw |-> ""]

\* the for loop of removeFromPortal: the index of the first entry whose portal
\* contains the element, 0 when there is none
FindPortal(w, element) ==
    LET hits == {i \in 1..Len(w.portals) : contains(w, w.portals[i][2], element)}
    IN  IF hits = {} THEN 0 ELSE CHOOSE i \in hits : \A j \in hits : i <= j

\* a membership test that accepts any descendant
IsDescendantOnly(w, element, foundPortal) == contains(w, foundPortal, element)

\* if (foundPortal && element.parentNode === foundPortal)
IsDirectChild(w, element, foundPortal) == w.parentNode[element] = foundPortal

\* a removeFromPortal that announces every element it found in a portal
removeFromPortalAnnounceFound(w, element) ==
    LET i == FindPortal(w, element)
    IN  IF i = 0 THEN [w |-> w, ret |-> false, threw |-> ""]
        ELSE IF IsDirectChild(w, element, w.portals[i][2])
        THEN [w |-> Emit([w EXCEPT !.parentNode[element] = null],
                         "elementRemoved", element, w.portals[i][1]),
              ret |-> true, threw |-> ""]
        ELSE [w |-> Emit(w, "elementRemoved", element, w.portals[i][1]),
              ret |-> false, threw |-> ""]

\* a removeFromPortal that detaches the element from wherever it is inside the
\* portal it found, before testing that it is a direct child
removeFromPortalDetachFirst(w, element) ==
    LET i == FindPortal(w, element)
    IN  IF i = 0 THEN [w |-> w, ret |-> false, threw |-> ""]
        ELSE IF IsDirectChild(w, element, w.portals[i][2])
        THEN [w |-> Emit([w EXCEPT !.parentNode[element] = null],
                         "elementRemoved", element, w.portals[i][1]),
              ret |-> true, threw |-> ""]
        ELSE [w |-> [w EXCEPT !.parentNode[element] = null], ret |-> false, threw |-> ""]

\* removeFromPortal(element)
removeFromPortal(w, element) ==
    LET i == FindPortal(w, element)
    IN  IF i # 0 /\ IsDirectChild(w, element, w.portals[i][2])
        THEN [w |-> Emit([w EXCEPT !.parentNode[element] = null],
                         "elementRemoved", element, w.portals[i][1]),
              ret |-> true, threw |-> ""]
        ELSE [w |-> w, ret |-> false, threw |-> ""]

\* positionElement(element, referenceElement, options = {}), with the host's
\* measurements l of referenceElement, element and window
positionElement(w, element, l, options) ==
    LET placement == Option(options, "placement", "bottom")
        portalId == Option(options, "portalId", "main")
        margin == Option(options, "margin", DefaultMargin)
        w1 == [w EXCEPT !.style[element].transform = Translate(placement, l, margin)]
    IN  addToPortal(w1, element, portalId)

\* a destroy that also empties the containers it detaches
destroyDetachChildren(w) ==
    LET registered == {w.portals[i][2] : i \in 1..Len(w.portals)}
    IN  [w |-> [w EXCEPT
                  !.parentNode = [n \in Nodes |->
                                    IF n \in registered \/ w.parentNode[n] \in registered
                                    THEN null ELSE w.parentNode[n]],
                  !.portals = <<>>],
         ret |-> undefined, threw |-> ""]

\* a destroy that detaches the containers and keeps this.portals
destroyKeepRegistry(w) ==
    LET registered == {w.portals[i][2] : i \in 1..Len(w.portals)}
    IN  [w |-> [w EXCEPT
                  !.parentNode = [n \in Nodes |->
                                    IF n \in registered THEN null ELSE w.parentNode[n]]],
         ret |-> undefined, threw |-> ""]

\* destroy()
destroy(w) ==
    LET registered == {w.portals[i][2] : i \in 1..Len(w.portals)}
    IN  [w |-> [w EXCEPT
                  !.parentNode = [n \in Nodes |->
                                    IF n \in registered THEN null ELSE w.parentNode[n]],
                  !.portals = <<>>],
         ret |-> undefined, threw |-> ""]

-----------------------------------------------------------------------------
(* Calls *)

\* a call that would create a portal needs a node of the model's supply
CanCreate(id) == Truthy(Lookup(portals, id)) \/ Created(World) < MaxPortals

\* the node a signal is emitted with: the container of portalCreated(id,
\* portal), the element of elementAdded and elementRemoved(element, portalId)
Subject(signal) == IF signal[1] = "portalCreated" THEN signal[3] ELSE signal[2]

RECURSIVE Heard(_, _)
\* what a subscriber that keeps the latest signal of every node holds after
\* the signals of one call
Heard(last, signals) ==
    IF signals = <<>> THEN last
    ELSE Heard([last EXCEPT ![Subject(Head(signals))] = Head(signals)], Tail(signals))

\* nobody has subscribed to the signals
NoSubscriber == <<"no subscriber">>

\* a subscriber that has heard nothing yet
NothingHeard == [n \in Nodes |-> <<>>]

Finish(r, call) ==
    /\ Commit(r.w)
    /\ lastSignal' = IF lastSignal = NoSubscriber THEN NoSubscriber
                     ELSE Heard(lastSignal, r.w.emitted)
    /\ ret' = IF r.threw = "" THEN r.ret ELSE <<"throw", r.threw>>
    /\ lastCall' = call
    /\ UNCHANGED layout

GetPortal(id, zIndex) ==
    /\ CanCreate(id)
    /\ Finish(getPortal(World, id, zIndex),
              [op |-> "getPortal", id |-> id, zIndex |-> zIndex])

\* the nodes a caller holds: its own elements and every portal container it
\* was handed by getPortal or by the portalCreated signal
Handles == Elements \cup {Portal(k) : k \in 1..Created(World)}

AddToPortal(element, portalId) ==
    /\ CanCreate(portalId)
    /\ Finish(addToPortal(World, element, portalId),
              [op |-> "addToPortal", element |-> element, id |-> portalId])

RemoveFromPortal(element) ==
    Finish(removeFromPortal(World, element),
           [op |-> "removeFromPortal", element |-> element])

PositionElement(element, options) ==
    /\ CanCreate(Option(options, "portalId", "main"))
    /\ Finish(positionElement(World, element, layout, options),
              [op |-> "positionElement", element |-> element,
               id |-> Option(options, "portalId", "main"), options |-> options])

Destroy ==
    Finish(destroy(World), [op |-> "destroy"])

\* the caller nests one of its elements in another (dropdown.appendChild(item))
HostAppendChild(child, parent) ==
    /\ ~IsInclusiveDescendant(parentNode, child, parent)
    /\ parentNode' = [parentNode EXCEPT ![child] = parent]
    /\ emitted' = <<>>
    /\ ret' = undefined
    /\ lastCall' = [op |-> "appendChild", element |-> child]
    /\ UNCHANGED <<portals, headStyles, style, layout, lastSignal>>

-----------------------------------------------------------------------------
(* Inputs *)

\* the worked example of the documentation of placement
ExampleLayout == Layout(100, 100, 50, 20, 30, 10, 1000, 1000)

\* options of the positionElement calls of the whole-manager specification
CallOptions == {NoOptions, [portalId |-> "tooltips"], [portalId |-> "constructor"]}

Layouts ==
    {Layout(left, top, size[1], size[2], el[1], el[2], vp[1], vp[2]) :
        left \in {0, 100}, top \in {0, 100}, size \in {<<50, 20>>, <<51, 21>>},
        el \in {<<0, 0>>, <<30, 10>>, <<40, 10>>, <<40, 30>>},
        vp \in {<<1000, 1000>>, <<120, 110>>, <<35, 25>>}}

Margins == {0, DefaultMargin, 8}

PlacementOptions ==
    LET placements == {[placement |-> p] : p \in Placements \cup {"center", ""}}
                          \cup {NoOptions}
        margins == {[margin |-> m] : m \in Margins} \cup {NoOptions}
    IN  {[k \in DOMAIN p \cup DOMAIN m |-> IF k \in DOMAIN p THEN p[k] ELSE m[k]] :
            p \in placements, m \in margins}

-----------------------------------------------------------------------------
(* new PortalManager() *)

EmptyWorld ==
    [portals |-> <<>>, parentNode |-> [n \in Nodes |-> null], headStyles |-> <<>>,
     style |-> [n \in Nodes |-> NoStyle], emitted |-> <<>>, delivered |-> <<>>]

\* a constructor that creates the main portal one digit short of 9999
ConstructorLowMain == createPortal(EmptyWorld, "main", 999)

\* constructor(): this.portals = {}; this._createPortal("main", 9999)
Constructor == createPortal(EmptyWorld, "main", DefaultZIndex)

Constructed ==
    /\ portals = Constructor.w.portals
    /\ parentNode = Constructor.w.parentNode
    /\ headStyles = Constructor.w.headStyles
    /\ style = Constructor.w.style
    /\ emitted = Constructor.w.emitted
    /\ lastCall = [op |-> "constructor"]
    /\ ret = undefined

\* the singleton of the module, before anything has subscribed to its signals
Init == Constructed /\ layout = ExampleLayout /\ lastSignal = NoSubscriber

Next ==
    \/ \E id \in PortalIds, zIndex \in ZIndexes : GetPortal(id, zIndex)
    \/ \E element \in Handles, id \in PortalIds : AddToPortal(element, id)
    \/ \E element \in Handles : RemoveFromPortal(element)
    \/ \E element \in Elements, options \in CallOptions : PositionElement(element, options)
    \/ Destroy
    \/ \E child, parent \in Elements : HostAppendChild(child, parent)

Spec == Init /\ [][Next]_vars

\* positionElement alone, over every layout, placement and margin
InitPlacement == Constructed /\ layout \in Layouts /\ lastSignal = NoSubscriber

NextPlacement ==
    \E options \in PlacementOptions : PositionElement(Element(1), options)

SpecPlacement == InitPlacement /\ [][NextPlacement]_vars


\* the calls other than destroy
NextNoDestroy ==
    \/ \E id \in PortalIds, zIndex \in ZIndexes : GetPortal(id, zIndex)
    \/ \E element \in Handles, id \in PortalIds : AddToPortal(element, id)
    \/ \E element \in Handles : RemoveFromPortal(element)
    \/ \E element \in Elements, options \in CallOptions : PositionElement(element, options)
    \/ \E child, parent \in Elements : HostAppendChild(child, parent)

SpecNoDestroy == Init /\ [][NextNoDestroy]_vars

\* the calls of the manager other than destroy, and nothing else touching
\* the document
NextManagerCalls ==
    \/ \E id \in PortalIds, zIndex \in ZIndexes : GetPortal(id, zIndex)
    \/ \E element \in Handles, id \in PortalIds : AddToPortal(element, id)
    \/ \E element \in Handles : RemoveFromPortal(element)
    \/ \E element \in Elements, options \in CallOptions : PositionElement(element, options)

\* the singleton with a subscriber attached once it is constructed: the
\* signals exist only from the constructor on, so the portalCreated of "main"
\* reaches nobody
InitSubscribed == Constructed /\ layout = ExampleLayout /\ lastSignal = NothingHeard

SpecManagerCalls == InitSubscribed /\ [][NextManagerCalls]_vars

-----------------------------------------------------------------------------
(* Properties.  A call's outcome in the current state is the value of its   *)
(* operator applied to World: removeFromPortal(World, e).ret is what       *)
(* removeFromPortal(e) would return now, and .w the state it would leave.  *)

Returned(w, v) == [w |-> w, ret |-> v, threw |-> ""]

RegisteredPortals == {portals[i][2] : i \in 1..Len(portals)}

\* element is below a registered container, at any depth
InsideRegistered(element) ==
    \E p \in RegisteredPortals : p # element /\ IsInclusiveDescendant(parentNode, p, element)

\* C1. Idempotent creation, in runs without destroy: no id ever has two
\* containers created for it (so no second portalCreated), every registered
\* container still carries the z-index it was created with, an id a call has
\* referred to stays registered, and getPortal(id, p) on an id that yields a
\* value returns that value, whatever p is, changing and emitting nothing.
C1_IdempotentCreation ==
    /\ \A id \in PortalIds :
         Cardinality({k \in 1..Len(headStyles) : headStyles[k].id = id}) <= 1
    /\ \A i \in 1..Len(portals) :
         \E k \in 1..Len(headStyles) :
            /\ portals[i][2] = Portal(k)
            /\ headStyles[k].id = portals[i][1]
            /\ style[Portal(k)].zIndex = headStyles[k].zIndex
    /\ \A id \in PortalIds, zIndex \in ZIndexes :
         Truthy(Lookup(portals, id)) =>
            getPortal(World, id, zIndex) = Returned(World, Lookup(portals, id))
    /\ lastCall.op \in {"getPortal", "addToPortal", "positionElement"} =>
         Truthy(Lookup(portals, lastCall.id))
    /\ lastCall.op = "getPortal" => ret = Lookup(portals, lastCall.id)

\* a getPortal with a z-index other than the one the portal was created with
C1_Witness ==
    /\ lastCall = [op |-> "getPortal", id |-> "tooltips", zIndex |-> 10000]
    /\ ret = Portal(2)
    /\ style[Portal(2)].zIndex = DefaultZIndex
    /\ emitted = <<>>

\* C2. Mount/remove round trip: a removeFromPortal(e) that directly follows
\* an addToPortal(e, s) that returned returns true, and a removeFromPortal(e)
\* that directly follows that one returns false.
C2_MountRemoveRoundTrip ==
    [][LET remove == [op |-> "removeFromPortal", element |-> lastCall.element]
       IN  /\ (lastCall.op = "addToPortal" /\ ret = lastCall.element /\ lastCall' = remove)
                 => ret' = true
           /\ (lastCall.op = "removeFromPortal" /\ ret = true /\ lastCall' = remove)
                 => ret' = false]_vars

\* C3. Direct-membership restriction: for an element below a registered
\* container that is a direct child of no registered container,
\* removeFromPortal returns false, leaves the tree as it is and emits nothing.
C3_DirectMembershipOnly ==
    \A element \in Handles :
        (InsideRegistered(element) /\ parentNode[element] \notin RegisteredPortals) =>
            removeFromPortal(World, element) = Returned(World, false)

\* removeFromPortal has just refused a grandchild of a registered container
C3_Witness ==
    /\ lastCall.op = "removeFromPortal"
    /\ ret = false
    /\ emitted = <<>>
    /\ parentNode[lastCall.element] \in Elements
    /\ parentNode[parentNode[lastCall.element]] \in RegisteredPortals

\* C4. Teardown is total and repeatable: after destroy() the registry is
\* empty and no container this manager created is connected to the document;
\* a second destroy() throws nothing and changes nothing.
C4_TeardownTotalRepeatable ==
    lastCall.op = "destroy" =>
        /\ ret = undefined
        /\ portals = <<>>
        /\ \A k \in 1..Created(World) : ~IsConnected(parentNode, Portal(k))
        /\ destroy(World) = Returned(World, undefined)

\* destroy() has run with two containers created and an element mounted
C4_Witness ==
    /\ lastCall.op = "destroy"
    /\ Created(World) = 2
    /\ \E element \in Elements : parentNode[element] = Portal(2)
    /\ parentNode[Portal(2)] = null

\* C5. Default portal at start: right after construction this.portals holds
\* exactly "main", with z-index 9999 and attached to document.body, and
\* getPortal("main") returns it, creating and emitting nothing.
C5_DefaultPortalAtStart ==
    lastCall.op = "constructor" =>
        /\ portals = <<<<"main", Portal(1)>>>>
        /\ headStyles = <<[id |-> "main", zIndex |-> 9999]>>
        /\ style[Portal(1)].zIndex = 9999
        /\ parentNode[Portal(1)] = body
        /\ \A zIndex \in ZIndexes :
             getPortal(World, "main", zIndex) = Returned(World, Portal(1))

\* the first call after construction was getPortal("main")
C5_Witness ==
    /\ lastCall.op = "getPortal" /\ lastCall.id = "main"
    /\ ret = Portal(1)
    /\ emitted = <<>>
    /\ portals = Constructor.w.portals
    /\ parentNode = Constructor.w.parentNode
    /\ style = Constructor.w.style
    /\ headStyles = Constructor.w.headStyles

\* the placement, margin and element of the last positionElement call
LastPlacement == Option(lastCall.options, "placement", "bottom")

LastMargin == Option(lastCall.options, "margin", DefaultMargin)

Applied == style[lastCall.element].transform

\* pixels as the half pixels transforms are kept in
Px(n) == 2 * n

\* the table of ideal positions of the placement modes, in half pixels
TableIdeal(mode, anchor, element, margin) ==
    LET centreX == Px(anchor.left) + anchor.width - element.width
        centreY == Px(anchor.top) + anchor.height - element.height
        above == Px(anchor.top - element.height - margin)
        below == Px(anchor.top + anchor.height + margin)
        alignRight == Px(anchor.left + anchor.width - element.width)
    IN  CASE mode = "top" -> <<centreX, above>>
          [] mode = "bottom" -> <<centreX, below>>
          [] mode = "left" -> <<Px(anchor.left - element.width - margin), centreY>>
          [] mode = "right" -> <<Px(anchor.left + anchor.width + margin), centreY>>
          [] mode = "top-left" -> <<Px(anchor.left), above>>
          [] mode = "top-right" -> <<alignRight, above>>
          [] mode = "bottom-left" -> <<Px(anchor.left), below>>
          [] mode = "bottom-right" -> <<alignRight, below>>

\* the per-axis clamp: below 0 becomes 0, then past the far edge becomes
\* viewport - size
TableClamp(x, size, viewport) ==
    LET low == IF x < 0 THEN 0 ELSE x
    IN  IF low + Px(size) > Px(viewport) THEN Px(viewport - size) ELSE low

TablePosition(mode, l, margin) ==
    LET ideal == TableIdeal(mode, [left |-> l.left, top |-> l.top,
                                   width |-> l.width, height |-> l.height],
                            [width |-> l.offsetWidth, height |-> l.offsetHeight], margin)
    IN  <<TableClamp(ideal[1], l.offsetWidth, l.innerWidth),
          TableClamp(ideal[2], l.offsetHeight, l.innerHeight)>>

\* C6. Placement correctness: for each of the 8 modes the transform
\* positionElement applies is the table's ideal position followed by the
\* per-axis clamp; for anchor {100, 100, 50, 20}, element 30 x 10, margin 5
\* and viewport 1000 x 1000 that is (110, 125) for "bottom", (100, 85) for
\* "top-left" and (155, 105) for "right".
C6_PlacementCorrect ==
    (lastCall.op = "positionElement" /\ LastPlacement \in Placements) =>
        /\ Applied = TablePosition(LastPlacement, layout, LastMargin)
        /\ (layout = ExampleLayout /\ LastMargin = 5) =>
             /\ LastPlacement = "bottom" => Applied = <<Px(110), Px(125)>>
             /\ LastPlacement = "top-left" => Applied = <<Px(100), Px(85)>>
             /\ LastPlacement = "right" => Applied = <<Px(155), Px(105)>>

\* the worked example, placed to the right of its anchor
C6_Witness ==
    /\ lastCall.op = "positionElement"
    /\ layout = ExampleLayout
    /\ lastCall.options = [placement |-> "right", margin |-> 5]
    /\ Applied = <<Px(155), Px(105)>>

\* C7. Clamping keeps the element in the viewport: when the element is no
\* wider and no taller than the viewport, the applied position has
\* 0 <= x, x + width <= viewport width, 0 <= y, y + height <= viewport height,
\* for every placement (the 8 modes, unset and unrecognized ones).
C7_ClampedIntoViewport ==
    (/\ lastCall.op = "positionElement"
     /\ layout.offsetWidth <= layout.innerWidth
     /\ layout.offsetHeight <= layout.innerHeight) =>
        /\ 0 <= Applied[1]
        /\ Applied[1] + Px(layout.offsetWidth) <= Px(layout.innerWidth)
        /\ 0 <= Applied[2]
        /\ Applied[2] + Px(layout.offsetHeight) <= Px(layout.innerHeight)

\* anchor at (0, 0), "top-left": the ideal y is negative and is clamped to 0
C7_Witness ==
    /\ lastCall.op = "positionElement"
    /\ layout = Layout(0, 0, 50, 20, 30, 10, 1000, 1000)
    /\ lastCall.options = [placement |-> "top-left", margin |-> 5]
    /\ IdealPosition("top-left", layout, 5)[2] < 0
    /\ Applied = <<0, 0>>

\* C8. An unrecognized placement is a defined default: positionElement
\* returns the element and applies exactly what "bottom-left" gives for the
\* same layout and margin.
C8_UnknownModeIsBottomLeft ==
    (lastCall.op = "positionElement" /\ LastPlacement \notin Placements) =>
        /\ ret = lastCall.element
        /\ Applied = Translate("bottom-left", layout, LastMargin)

\* "center" placed where "bottom-left" would be, which is not where the
\* default placement "bottom" would be
C8_Witness ==
    /\ lastCall.op = "positionElement"
    /\ LastPlacement = "center"
    /\ ret = lastCall.element
    /\ Applied = Translate("bottom-left", layout, LastMargin)
    /\ Applied # Translate("bottom", layout, LastMargin)

\* the id a registered container is registered under
IdOf(portal) == CHOOSE id \in OwnIds(portals) : OwnValue(portals, id) = portal

\* C9. Membership lookup is complete: whenever element is a direct child of a
\* registered container, removeFromPortal(element) returns true, detaches it
\* and emits elementRemoved with that container's id.
C9_MembershipLookupComplete ==
    [][\A element \in Handles :
          (/\ lastCall' = [op |-> "removeFromPortal", element |-> element]
           /\ parentNode[element] \in RegisteredPortals) =>
              /\ ret' = true
              /\ parentNode'[element] = null
              /\ emitted' = <<<<"elementRemoved", element, IdOf(parentNode[element])>>>>]_vars

\* C10. Lazy creation never fails: for every id no container is registered
\* under, getPortal(id, p) throws nothing, creates a container with z-index p,
\* attaches it to document.body, registers it under id, emits exactly one
\* portalCreated(id, container) and returns that container.
C10_LazyCreationNeverFails ==
    [][(lastCall'.op = "getPortal" /\ lastCall'.id \notin OwnIds(portals)) =>
          /\ ret' = Portal(Created(World) + 1)
          /\ style'[ret'].zIndex = lastCall'.zIndex
          /\ parentNode'[ret'] = body
          /\ lastCall'.id \in OwnIds(portals')
          /\ Lookup(portals', lastCall'.id) = ret'
          /\ emitted' = <<<<"portalCreated", lastCall'.id, ret'>>>>]_vars

\* C11. A failed remove changes nothing: whenever removeFromPortal(element)
\* returns false it has thrown nothing and has left this.portals, every
\* node's parent, the style rules and inline styles as they were, and it has
\* emitted nothing.
C11_FailedRemoveChangesNothing ==
    /\ \A element \in Handles :
         removeFromPortal(World, element).ret = false =>
            removeFromPortal(World, element) = Returned(World, false)
    /\ (lastCall.op = "removeFromPortal" /\ ret = false) => emitted = <<>>

\* removeFromPortal has refused an element that is mounted nowhere, while
\* another element is mounted
C11_Witness ==
    /\ lastCall.op = "removeFromPortal"
    /\ ret = false
    /\ parentNode[lastCall.element] = null
    /\ \E other \in Elements : parentNode[other] \in RegisteredPortals

\* C12. Single mount: every element is a direct child of at most one
\* registered container, and addToPortal(element, id) for an element that is
\* mounted in a container throws nothing and leaves the element a direct child
\* of the container registered under id.
C12_SingleMount ==
    /\ \A element \in Handles :
         Cardinality({p \in RegisteredPortals : parentNode[element] = p}) <= 1
    /\ \A element \in Handles, id \in PortalIds :
         (parentNode[element] \in RegisteredPortals /\ CanCreate(id)) =>
            LET r == addToPortal(World, element, id)
            IN  /\ r.threw = ""
                /\ r.ret = element
                /\ r.w.parentNode[element] = Lookup(r.w.portals, id)

\* the elementAdded signals among those the last call emitted
AddedSignals == SelectSeq(emitted, LAMBDA signal : signal[1] = "elementAdded")

\* C13. positionElement mounts what it positions: it returns the element it
\* was given, has applied the position computed from the layout measured at
\* the call (placement "bottom" and margin 5 when unset), leaves the element a
\* direct child of the container registered under options.portalId ("main"
\* when unset), and has emitted exactly one elementAdded(element, portalId).
C13_PlaceMountsWhatItPositions ==
    lastCall.op = "positionElement" =>
        LET placement == IF "placement" \in DOMAIN lastCall.options
                         THEN lastCall.options.placement ELSE "bottom"
            margin == IF "margin" \in DOMAIN lastCall.options
                      THEN lastCall.options.margin ELSE 5
            portalId == IF "portalId" \in DOMAIN lastCall.options
                        THEN lastCall.options.portalId ELSE "main"
        IN  /\ ret = lastCall.element
            /\ Applied = Translate(placement, layout, margin)
            /\ Lookup(portals, portalId) \in RegisteredPortals
            /\ parentNode[lastCall.element] = Lookup(portals, portalId)
            /\ AddedSignals = <<<<"elementAdded", lastCall.element, portalId>>>>

SignalKinds == {"portalCreated", "elementAdded", "elementRemoved"}

\* the signals of kind among those a call emitted
Signals(w, kind) == SelectSeq(w.emitted, LAMBDA signal : signal[1] = kind)

C15_OversizedElement ==
    lastCall.op = "positionElement" =>
        /\ layout.offsetWidth > layout.innerWidth =>
              /\ Applied[1] = Px(layout.innerWidth - layout.offsetWidth)
              /\ Applied[1] < 0
        /\ layout.offsetHeight > layout.innerHeight =>
              /\ Applied[2] = Px(layout.innerHeight - layout.offsetHeight)
              /\ Applied[2] < 0

\* an element 40 x 10 in a viewport 35 x 25: too wide, not too tall
C15_Witness ==
    /\ lastCall.op = "positionElement"
    /\ layout = Layout(100, 0, 50, 20, 40, 10, 35, 25)
    /\ LastPlacement = "left"
    /\ Applied = <<Px(-5), Px(5)>>

\* C16. addToPortal creates an unregistered container first: for an id that
\* is not registered, addToPortal(element, id) creates the container with
\* z-index 9999, emits portalCreated(id, container) and then
\* elementAdded(element, id), and leaves the element a direct child of the
\* new container.
C16_AddCreatesFirst ==
    [][(lastCall'.op = "addToPortal" /\ lastCall'.id \notin OwnIds(portals)) =>
          LET created == Portal(Created(World) + 1)
          IN  /\ ret' = lastCall'.element
              /\ Lookup(portals', lastCall'.id) = created
              /\ style'[created].zIndex = 9999
              /\ emitted' = << <<"portalCreated", lastCall'.id, created>>,
                               <<"elementAdded", lastCall'.element, lastCall'.id>> >>
              /\ parentNode'[lastCall'.element] = created]_vars

\* what a call of the manager does in the current state
Outcome(call) ==
    CASE call.op = "getPortal" -> getPortal(World, call.id, call.zIndex)
      [] call.op = "addToPortal" -> addToPortal(World, call.element, call.id)
      [] call.op = "removeFromPortal" -> removeFromPortal(World, call.element)
      [] call.op = "positionElement" ->
           positionElement(World, call.element, layout, call.options)
      [] call.op = "destroy" -> destroy(World)

\* what a subscriber finds and gets when the k-th signal of a call reaches it
HandlerSeesCompletedState(r, k) ==
    LET signal == r.w.emitted[k]
        seen == r.w.delivered[k]
    IN  CASE signal[1] = "portalCreated" ->
               /\ Lookup(seen.portals, signal[2]) = signal[3]
               /\ seen.parentNode[signal[3]] = body
               /\ \A zIndex \in ZIndexes :
                    getPortal(seen, signal[2], zIndex) = Returned(seen, signal[3])
          [] signal[1] = "elementAdded" ->
               /\ seen.parentNode[signal[2]] = Lookup(seen.portals, signal[3])
               /\ removeFromPortal(seen, signal[2]).ret = true
          [] signal[1] = "elementRemoved" ->
               /\ seen.parentNode[signal[2]] = null
               /\ removeFromPortal(seen, signal[2]).ret = false

\* C17. Subscribers see the completed state: when portalCreated(id, s) is
\* delivered, id is registered to s and s is attached, and getPortal(id)
\* called from the subscriber returns s, creating and emitting nothing; when
\* elementAdded(e, s) is delivered e is a direct child of s and
\* removeFromPortal(e) called from the subscriber returns true; when
\* elementRemoved(e, s) is delivered e is detached and removeFromPortal(e)
\* called from the subscriber returns false.
C17_HandlersSeeCompletedState ==
    [][lastCall'.op \in {"getPortal", "addToPortal", "removeFromPortal",
                         "positionElement", "destroy"} =>
          /\ Outcome(lastCall').w.emitted = emitted'
          /\ \A k \in 1..Len(emitted') :
               HandlerSeesCompletedState(Outcome(lastCall'), k)]_vars

\* C18, as stated. destroy() emits nothing, leaves every element that was a
\* direct child of a registered container a child of that container, which is
\* now detached, and after it removeFromPortal returns false for every
\* element.
C18_TeardownOrphansEveryElement ==
    [][lastCall'.op = "destroy" =>
          /\ emitted' = <<>>
          /\ \A element \in Handles :
               parentNode[element] \in RegisteredPortals =>
                  /\ parentNode'[element] = parentNode[element]
                  /\ parentNode'[parentNode[element]] = null
          /\ \A element \in Handles : removeFromPortal(World', element).ret = false]_vars

\* C18, for the elements that are not themselves registered containers.
\* destroy() emits nothing and leaves every such element that was a direct
\* child of a registered container a child of that container, which is no
\* longer connected to the document; after it removeFromPortal returns false
\* for every element, and goes on doing so for an element until an
\* addToPortal or positionElement of that element returns: removeFromPortal
\* returns true only for a direct child of a registered container, and only
\* those two calls make an element one.
C18_TeardownOrphansSilently ==
    [][/\ lastCall'.op = "destroy" =>
            /\ emitted' = <<>>
            /\ \A element \in Handles \ RegisteredPortals :
                 parentNode[element] \in RegisteredPortals =>
                    /\ parentNode'[element] = parentNode[element]
                    /\ ~IsConnected(parentNode', element)
            /\ \A element \in Handles : removeFromPortal(World', element).ret = false
       /\ \A element \in Handles :
            /\ removeFromPortal(World', element).ret = true =>
                  parentNode'[element] \in RegisteredPortals'
            /\ (parentNode'[element] \in RegisteredPortals'
                    /\ parentNode[element] \notin RegisteredPortals) =>
                  /\ lastCall'.op \in {"addToPortal", "positionElement"}
                  /\ lastCall'.element = element
                  /\ ret' = element]_vars

\* after destroy() and a new "main", removeFromPortal has refused an element
\* that is still a child of the old, detached "main" container
C18_Witness ==
    /\ lastCall.op = "removeFromPortal"
    /\ ret = false
    /\ lastCall.element \in Elements
    /\ parentNode[lastCall.element] = Portal(1)
    /\ parentNode[Portal(1)] = null
    /\ portals = <<<<"main", Portal(2)>>>>

\* a teardown has happened: for want of one every container created is
\* still registered
TornDown == Len(portals) < Created(World)

\* C19. The manager stays usable after teardown: destroy() itself registers
\* nothing, and after it the first getPortal(id, p) or addToPortal(e, id) for
\* an id, "main" included, creates a container that is none of those created
\* before, gives it the z-index of this call (p, or 9999 from addToPortal) in
\* its inline style and in the last style rule, attaches it to document.body,
\* registers it under id and emits portalCreated(id, container).
C19_UsableAfterTeardown ==
    [][/\ lastCall'.op = "destroy" => portals' = <<>>
       /\ (/\ TornDown
           /\ lastCall'.op \in {"getPortal", "addToPortal"}
           /\ lastCall'.id \notin OwnIds(portals)) =>
             LET id == lastCall'.id
                 zIndex == IF lastCall'.op = "getPortal" THEN lastCall'.zIndex ELSE 9999
                 created == Lookup(portals', id)
             IN  /\ created \in PortalNodes
                 /\ \A k \in 1..Created(World) : created # Portal(k)
                 /\ style'[created].zIndex = zIndex
                 /\ headStyles' = Append(headStyles, [id |-> id, zIndex |-> zIndex])
                 /\ parentNode'[created] = body
                 /\ Len(emitted') >= 1
                 /\ emitted'[1] = <<"portalCreated", id, created>>]_vars

\* C20. Notifications track membership, in runs of getPortal, addToPortal,
\* removeFromPortal and positionElement: an element is a direct child of the
\* container registered under id exactly when the latest signal emitted with
\* the element is elementAdded(element, id); and every elementRemoved(element,
\* id) follows an elementAdded(element, id) with no signal for the element in
\* between.
C20_NotificationsTrackMembership ==
    [][/\ \A element \in Handles, id \in OwnIds(portals') :
            parentNode'[element] = OwnValue(portals', id)
               <=> lastSignal'[element] = <<"elementAdded", element, id>>
       /\ \A k \in 1..Len(emitted') :
            emitted'[k][1] = "elementRemoved" =>
               lastSignal[emitted'[k][2]] = <<"elementAdded", emitted'[k][2], emitted'[k][3]>>]_vars

\* an element moved from "main" to "tooltips" and removed from there
C20_Witness ==
    /\ lastSignal[Element(1)] = <<"elementRemoved", Element(1), "tooltips">>
    /\ lastSignal[Element(2)] = <<"elementAdded", Element(2), "main">>
    /\ parentNode[Element(1)] = null
    /\ parentNode[Element(2)] = Lookup(portals, "main")

=============================================================================
